---- MODULE Spec2Model ----
(***************************************************************************)
(* Expense tracker (src/app.py): the Expense table, the request handlers   *)
(* index, add_expense, dashboard, view_expenses, delete_expense and        *)
(* export_csv, and the two chart helpers.                                  *)
(*                                                                         *)
(* Text is a sequence of one-character strings, so that parsing,           *)
(* formatting and the lexicographic order of sorted() are computed and not *)
(* assumed.  Expense.amount is a binary floating-point number (db.Float,   *)
(* Python float): a value here is an integer number of units that has at   *)
(* most Precision significant bits, and every addition rounds to the       *)
(* nearest such value, ties to even, as IEEE 754 does with 53 bits.        *)
(***************************************************************************)
EXTENDS Integers, Sequences, FiniteSets, TLC

VARIABLES db, deleted, req, resp

vars == <<db, deleted, req, resp>>

\* ---------------------------------------------------------------- bounds
\* Rows the table may hold at once.
MaxRecords == 3
\* Largest primary key the model lets the table hand out.
MaxId == 3
\* Significant bits of a float (53 in the program).
Precision == 3

\* ------------------------------------------------------------ characters
DigitChars == {"0", "1", "2", "3", "4", "5", "6", "7", "8", "9"}

\* Code point of a character: the order str comparison uses.
Ord(c) ==
  CASE c = "-" -> 45
    [] c = "." -> 46
    [] c = "0" -> 48 [] c = "1" -> 49 [] c = "2" -> 50 [] c = "3" -> 51
    [] c = "4" -> 52 [] c = "5" -> 53 [] c = "6" -> 54 [] c = "7" -> 55
    [] c = "8" -> 56 [] c = "9" -> 57
    [] OTHER -> 120

DigitVal(c) == Ord(c) - 48

Chr(d) == CHOOSE c \in DigitChars : DigitVal(c) = d

IsDigits(s) == Len(s) > 0 /\ \A i \in 1..Len(s) : s[i] \in DigitChars

RECURSIVE DecimalValue(_)
DecimalValue(s) ==
  IF s = <<>> THEN 0
  ELSE 10 * DecimalValue(SubSeq(s, 1, Len(s) - 1)) + DigitVal(s[Len(s)])

\* Decimal digits of n >= 0, no padding.
RECURSIVE Decimal(_)
Decimal(n) == IF n < 10 THEN <<Chr(n)>> ELSE Decimal(n \div 10) \o <<Chr(n % 10)>>

\* %m and %d of strftime: two digits, zero padded.
Pad2(n) == <<Chr(n \div 10), Chr(n % 10)>>

\* str.__lt__: lexicographic by code point, a proper prefix is smaller.
RECURSIVE StrLess(_, _)
StrLess(a, b) ==
  IF b = <<>> THEN FALSE
  ELSE IF a = <<>> THEN TRUE
  ELSE IF Ord(a[1]) # Ord(b[1]) THEN Ord(a[1]) < Ord(b[1])
  ELSE StrLess(Tail(a), Tail(b))

\* ----------------------------------------------------------------- floats
RECURSIVE Pow2(_)
Pow2(k) == IF k = 0 THEN 1 ELSE 2 * Pow2(k - 1)

Abs(n) == IF n < 0 THEN -n ELSE n

\* Exponent of the unit in the last place of a magnitude m.
RECURSIVE Ulp(_, _)
Ulp(m, e) == IF m < Pow2(Precision) * Pow2(e) THEN e ELSE Ulp(m, e + 1)

\* Round an exact value to the nearest float, ties to even.
FRound(n) ==
  LET m == Abs(n)
      u == Pow2(Ulp(m, 0))
      q == m \div u
      r == m % u
      up == 2 * r > u \/ (2 * r = u /\ q % 2 = 1)
      v == (IF up THEN q + 1 ELSE q) * u
  IN  IF n < 0 THEN -v ELSE v

\* float.__add__
FAdd(a, b) == FRound(a + b)

\* float(text): sign and decimal digits; anything else raises ValueError.
ParseFloat(s) ==
  LET neg  == Len(s) > 0 /\ s[1] = "-"
      body == IF neg THEN Tail(s) ELSE s
  IN  IF IsDigits(body)
      THEN [ok |-> TRUE,
            val |-> FRound(IF neg THEN -DecimalValue(body) ELSE DecimalValue(body))]
      ELSE [ok |-> FALSE, val |-> 0]

\* str(float) of an integral float of small magnitude: "8.0", "-1.0".
FloatStr(v) ==
  (IF v < 0 THEN <<"-">> ELSE <<>>) \o Decimal(Abs(v)) \o <<".", "0">>

\* ------------------------------------------------------------------ dates
IsLeap(y) == (y % 4 = 0 /\ y % 100 # 0) \/ y % 400 = 0

DaysInMonth(y, m) ==
  IF m = 2 THEN (IF IsLeap(y) THEN 29 ELSE 28)
  ELSE IF m \in {4, 6, 9, 11} THEN 30 ELSE 31

\* Positions of "-" in a text.
Dashes(s) == {i \in 1..Len(s) : s[i] = "-"}

\* datetime.strptime(text, '%Y-%m-%d'): four digits, one or two digits, one
\* or two digits, then the calendar check of the datetime constructor.
Strptime(s) ==
  LET bad == [ok |-> FALSE, year |-> 0, month |-> 0, day |-> 0]
  IN  IF Cardinality(Dashes(s)) # 2 THEN bad
      ELSE
        LET p1 == CHOOSE i \in Dashes(s) : \A j \in Dashes(s) : i <= j
            p2 == CHOOSE i \in Dashes(s) : \A j \in Dashes(s) : j <= i
            ys == SubSeq(s, 1, p1 - 1)
            ms == SubSeq(s, p1 + 1, p2 - 1)
            ds == SubSeq(s, p2 + 1, Len(s))
        IN  IF ~(IsDigits(ys) /\ Len(ys) = 4 /\ IsDigits(ms) /\ Len(ms) <= 2
                 /\ IsDigits(ds) /\ Len(ds) <= 2) THEN bad
            ELSE
              LET y == DecimalValue(ys)
                  m == DecimalValue(ms)
                  d == DecimalValue(ds)
              IN  IF y >= 1 /\ m \in 1..12 /\ d >= 1 /\ d <= DaysInMonth(y, m)
                  THEN [ok |-> TRUE, year |-> y, month |-> m, day |-> d]
                  ELSE bad

\* date.strftime('%Y-%m'): the year in decimal (the years of the model have
\* four digits), the month zero padded.
StrftimeYm(dt) == Decimal(dt.year) \o <<"-">> \o Pad2(dt.month)

\* date.strftime('%Y-%m-%d')
StrftimeYmd(dt) == StrftimeYm(dt) \o <<"-">> \o Pad2(dt.day)

\* Order of two datetimes (midnight of a day).
DateOrd(dt) == (dt.year * 12 + (dt.month - 1)) * 31 + (dt.day - 1)

\* ------------------------------------------------------------ form inputs
\* Values of the form field 'amount': three that float() accepts and one it
\* rejects.
AmountInputs == {<<"1">>, <<"8">>, <<"-", "1">>, <<"x">>}

Dec31 == <<"2", "0", "2", "3", "-", "1", "2", "-", "3", "1">>

Feb03 == <<"2", "0", "2", "4", "-", "0", "2", "-", "0", "3">>

Feb15 == <<"2", "0", "2", "4", "-", "0", "2", "-", "1", "5">>

Feb30 == <<"2", "0", "2", "4", "-", "0", "2", "-", "3", "0">>

\* Values of the form field 'date': three dates, two of them in one month,
\* and the 30th of February.
DateInputs == {Dec31, Feb03, Feb15, Feb30}

CategoryInputs == {"Food", "Transport"}

DescriptionInputs == {"lunch"}

\* Every form the report handlers' tables are built from.
AllForms ==
  [amount : AmountInputs, category : CategoryInputs, date : DateInputs,
   description : DescriptionInputs]

\* The forms the running application is sent: two it accepts, and three it
\* rejects (the amount, the date, both).
RequestForms ==
  {[amount |-> <<"8">>, category |-> "Food", date |-> Feb15, description |-> "lunch"],
   [amount |-> <<"-", "1">>, category |-> "Transport", date |-> Dec31,
    description |-> "lunch"],
   [amount |-> <<"x">>, category |-> "Food", date |-> Feb15, description |-> "lunch"],
   [amount |-> <<"1">>, category |-> "Food", date |-> Feb30, description |-> "lunch"],
   [amount |-> <<"x">>, category |-> "Transport", date |-> Feb30,
    description |-> "lunch"]}

\* Ids a delete request may name.
IdInputs == 1..MaxId

\* ------------------------------------------------------------- the table
\* The Expense table is the sequence of its rows in ascending id, which is
\* the order a query without ORDER BY scans an INTEGER PRIMARY KEY table in.
Expense(id, amount, category, date, description) ==
  [id |-> id, amount |-> amount, category |-> category,
   date |-> [year |-> date.year, month |-> date.month, day |-> date.day],
   description |-> description]

Ids(rows) == {rows[i].id : i \in 1..Len(rows)}

\* The key an INTEGER PRIMARY KEY column (no AUTOINCREMENT) gives a new row:
\* one more than the largest key in the table, 1 when the table is empty.
NextId(rows) == IF rows = <<>> THEN 1 ELSE rows[Len(rows)].id + 1

\* db.session.add(new_expense); db.session.commit()
SessionAdd(rows, amount, category, date, description) ==
  Append(rows, Expense(NextId(rows), amount, category, date, description))

\* Expense.query.all()
QueryAll(rows) == rows

\* Expense.query.count()
QueryCount(rows) == Len(rows)

\* QueryGet gone wrong: a lookup that falls back to the first row when no row
\* has the id.
QueryGetOrFirst(rows, id) ==
  IF id \in Ids(rows) THEN CHOOSE i \in 1..Len(rows) : rows[i].id = id
  ELSE IF rows = <<>> THEN 0 ELSE 1

\* Position of the row Expense.query.get(id) finds, 0 when there is none.
QueryGet(rows, id) ==
  IF id \in Ids(rows) THEN CHOOSE i \in 1..Len(rows) : rows[i].id = id ELSE 0

\* db.session.delete(expense); db.session.commit()
SessionDelete(rows, i) == SubSeq(rows, 1, i - 1) \o SubSeq(rows, i + 1, Len(rows))

\* Stable insertion of a row into a sequence kept newest first.
RECURSIVE InsertByDateDesc(_, _)
InsertByDateDesc(s, e) ==
  IF s = <<>> THEN <<e>>
  ELSE IF DateOrd(e.date) > DateOrd(s[1].date) THEN <<e>> \o s
  ELSE <<s[1]>> \o InsertByDateDesc(Tail(s), e)

\* Expense.query.order_by(Expense.date.desc()).all(); rows of one date stay
\* in id order.
RECURSIVE OrderByDateDesc(_)
OrderByDateDesc(rows) ==
  IF rows = <<>> THEN <<>>
  ELSE InsertByDateDesc(OrderByDateDesc(SubSeq(rows, 1, Len(rows) - 1)),
                        rows[Len(rows)])

\* .limit(n)
Limit(s, n) == SubSeq(s, 1, IF Len(s) < n THEN Len(s) ELSE n)

RecentLimit == 5

\* Left-to-right float sum of a sequence of amounts, from 0.
RECURSIVE FSum(_)
FSum(s) == IF s = <<>> THEN 0 ELSE FAdd(FSum(SubSeq(s, 1, Len(s) - 1)), s[Len(s)])

Amounts(rows) == [i \in 1..Len(rows) |-> rows[i].amount]

\* db.session.query(db.func.sum(Expense.amount)).scalar() or 0
SumAll(rows) == FSum(Amounts(rows))

\* ------------------------------------------------------------------ dicts
\* A dict is the sequence of its items in insertion order.
DictKeys(d) == [i \in 1..Len(d) |-> d[i].k]

DictValues(d) == [i \in 1..Len(d) |-> d[i].v]

DictHas(d, k) == \E i \in 1..Len(d) : d[i].k = k

DictGet(d, k) == d[CHOOSE i \in 1..Len(d) : d[i].k = k].v

\* DictAccumulate gone wrong: = in place of +=.
DictOverwrite(d, k, v) ==
  IF DictHas(d, k)
  THEN [i \in 1..Len(d) |-> IF d[i].k = k THEN [k |-> k, v |-> v] ELSE d[i]]
  ELSE Append(d, [k |-> k, v |-> v])

\* if k in d: d[k] += v  else: d[k] = v
DictAccumulate(d, k, v) ==
  IF DictHas(d, k)
  THEN [i \in 1..Len(d) |-> IF d[i].k = k THEN [k |-> k, v |-> FAdd(d[i].v, v)] ELSE d[i]]
  ELSE Append(d, [k |-> k, v |-> v])

\* ---------------------------------------------------------------- sorted()
RECURSIVE InsertSorted(_, _)
InsertSorted(s, k) ==
  IF s = <<>> THEN <<k>>
  ELSE IF StrLess(k, s[1]) THEN <<k>> \o s
  ELSE <<s[1]>> \o InsertSorted(Tail(s), k)

RECURSIVE Sorted(_)
Sorted(s) ==
  IF s = <<>> THEN <<>>
  ELSE InsertSorted(Sorted(SubSeq(s, 1, Len(s) - 1)), s[Len(s)])

\* ----------------------------------------------------------- chart helpers
\* A chart helper returns None, or the base64 text of the image, which
\* stands here for what was drawn; a helper that raises yields Raised.
NoChart == [kind |-> "None"]

Raised == [kind |-> "ValueError"]

\* The value of a local the handler did not get to assign.
NotCalled == [kind |-> "not called"]

\* plt.pie(values, labels=labels, autopct=...) and the savefig that follows.
\* pie refuses a negative wedge size with ValueError.  When every size is 0
\* the shares are 0/0 and the outcome depends on the library version, so
\* both outcomes are possible.
PltPie(values, labels) ==
  LET chart == [kind |-> "pie", values |-> values, labels |-> labels]
  IN  IF \E i \in 1..Len(values) : values[i] < 0 THEN {Raised}
      ELSE IF \A i \in 1..Len(values) : values[i] = 0 THEN {chart, Raised}
      ELSE {chart}

\* generate_pie_chart(categories): the set of results the call can have.
generate_pie_chart(categories) ==
  IF categories = <<>> THEN {NoChart}
  ELSE PltPie(DictValues(categories), DictKeys(categories))

\* generate_line_chart(months, values)
generate_line_chart(months, values) ==
  IF months = <<>> THEN NoChart
  ELSE [kind |-> "line", x |-> months, y |-> values]

\* --------------------------------------------------------------- handlers
\* The loop of dashboard(): both dicts after the rows from position i on
\* have been added to them.
RECURSIVE Aggregate(_, _, _, _)
Aggregate(expenses, i, categories, monthly_data) ==
  IF i > Len(expenses)
  THEN [categories |-> categories, monthly_data |-> monthly_data]
  ELSE LET expense   == expenses[i]
           month_key == StrftimeYm(expense.date)
       IN  Aggregate(expenses, i + 1,
                     DictAccumulate(categories, expense.category, expense.amount),
                     DictAccumulate(monthly_data, month_key, expense.amount))

\* SortedMonths gone wrong: the keys in insertion order, sorted() left out.
UnsortedMonths(monthly_data) == DictKeys(monthly_data)

\* sorted_months = sorted(monthly_data.keys())
SortedMonths(monthly_data) == Sorted(DictKeys(monthly_data))

\* monthly_values = [monthly_data[month] for month in sorted_months]
MonthlyValues(monthly_data, sorted_months) ==
  [i \in 1..Len(sorted_months) |-> DictGet(monthly_data, sorted_months[i])]

\* dashboard(): the responses it can give.  A response keeps the handler's
\* locals; the line chart is not drawn when the pie chart raised.
Dashboard(rows) ==
  LET expenses       == QueryAll(rows)
      agg            == Aggregate(expenses, 1, <<>>, <<>>)
      sorted_months  == SortedMonths(agg.monthly_data)
      monthly_values == MonthlyValues(agg.monthly_data, sorted_months)
  IN  {[status         |-> IF category_chart = Raised THEN 500 ELSE 200,
        expenses       |-> expenses,
        categories     |-> agg.categories,
        monthly_data   |-> agg.monthly_data,
        sorted_months  |-> sorted_months,
        monthly_values |-> monthly_values,
        category_chart |-> category_chart,
        monthly_chart  |-> IF category_chart = Raised THEN NotCalled
                           ELSE generate_line_chart(sorted_months, monthly_values)]
       : category_chart \in generate_pie_chart(agg.categories)}

\* index()
Index(rows) ==
  [status          |-> 200,
   total_expenses  |-> SumAll(rows),
   expenses_count  |-> QueryCount(rows),
   recent_expenses |-> Limit(OrderByDateDesc(rows), RecentLimit)]

\* view_expenses()
ViewExpenses(rows) == [status |-> 200, expenses |-> OrderByDateDesc(rows)]

CsvHeader == <<"Date", "Category", "Description", "Amount (₹)">>

\* One writer.writerow of the export loop.
CsvRow(expense) ==
  <<StrftimeYmd(expense.date), expense.category, expense.description,
    FloatStr(expense.amount)>>

\* ExportCsv gone wrong: the loop stops one row early.
ExportCsvDropLast(rows) ==
  LET expenses == QueryAll(rows)
  IN  [status |-> 200,
       rows   |-> <<CsvHeader>>
                    \o [i \in 1..(Len(expenses) - 1) |-> CsvRow(expenses[i])]]

\* export_csv(): the rows written, the header row first.
ExportCsv(rows) ==
  LET expenses == QueryAll(rows)
  IN  [status |-> 200,
       rows   |-> <<CsvHeader>> \o [i \in 1..Len(expenses) |-> CsvRow(expenses[i])]]

\* AddExpense gone wrong: a date that does not parse is replaced by a default
\* date and the row is stored all the same.
AddExpenseDefaultDate(rows, form) ==
  LET amount == ParseFloat(form.amount)
      date   == Strptime(form.date)
      today  == [ok |-> TRUE, year |-> 2024, month |-> 2, day |-> 15]
  IN  IF ~amount.ok
      THEN [rows |-> rows,
            resp |-> [status |-> 500, error |-> "ValueError", constructed |-> FALSE]]
      ELSE [rows |-> SessionAdd(rows, amount.val, form.category,
                                IF date.ok THEN date ELSE today, form.description),
            resp |-> [status |-> 302, error |-> "", constructed |-> TRUE]]

\* add_expense() on POST: the table and the response after it.  float() and
\* strptime() run, in this order, before Expense(...) is constructed; either
\* raising ValueError ends the request with status 500.
AddExpense(rows, form) ==
  LET amount == ParseFloat(form.amount)
      date   == Strptime(form.date)
  IN  IF ~amount.ok \/ ~date.ok
      THEN [rows |-> rows,
            resp |-> [status |-> 500, error |-> "ValueError", constructed |-> FALSE]]
      ELSE [rows |-> SessionAdd(rows, amount.val, form.category, date, form.description),
            resp |-> [status |-> 302, error |-> "", constructed |-> TRUE]]

\* delete_expense(id): get_or_404, then delete and commit.
DeleteExpense(rows, id) ==
  LET i == QueryGet(rows, id)
  IN  IF i = 0
      THEN [rows |-> rows, resp |-> [status |-> 404]]
      ELSE [rows |-> SessionDelete(rows, i), resp |-> [status |-> 302]]

\* ---------------------------------------------------------------- actions
\* The state: the table db; the request handled last and its response; and
\* deleted, the ids that delete_expense has removed so far (history only).
NoReq == [op |-> "none"]

Init ==
  /\ db = <<>>
  /\ deleted = {}
  /\ req = NoReq
  /\ resp = [status |-> 0]

IndexGet ==
  /\ req' = [op |-> "index"]
  /\ resp' = Index(db)
  /\ UNCHANGED <<db, deleted>>

AddExpenseGet ==
  /\ req' = [op |-> "add_expense", method |-> "GET"]
  /\ resp' = [status |-> 200, error |-> "", constructed |-> FALSE]
  /\ UNCHANGED <<db, deleted>>

AddExpensePost ==
  \E form \in RequestForms :
    LET out == AddExpense(db, form)
    IN  /\ Len(out.rows) <= MaxRecords
        /\ \A i \in 1..Len(out.rows) : out.rows[i].id <= MaxId
        /\ req' = [op |-> "add_expense", method |-> "POST", form |-> form]
        /\ db' = out.rows
        /\ resp' = out.resp
        /\ UNCHANGED deleted

DashboardGet ==
  /\ req' = [op |-> "dashboard"]
  /\ resp' \in Dashboard(db)
  /\ UNCHANGED <<db, deleted>>

ViewExpensesGet ==
  /\ req' = [op |-> "view_expenses"]
  /\ resp' = ViewExpenses(db)
  /\ UNCHANGED <<db, deleted>>

DeleteExpenseGet ==
  \E id \in IdInputs :
    LET out == DeleteExpense(db, id)
    IN  /\ req' = [op |-> "delete_expense", id |-> id]
        /\ db' = out.rows
        /\ resp' = out.resp
        /\ deleted' = IF out.resp.status = 302 THEN deleted \cup {id} ELSE deleted

ExportCsvGet ==
  /\ req' = [op |-> "export_csv"]
  /\ resp' = ExportCsv(db)
  /\ UNCHANGED <<db, deleted>>

Next ==
  \/ IndexGet
  \/ AddExpenseGet
  \/ AddExpensePost
  \/ DashboardGet
  \/ ViewExpensesGet
  \/ DeleteExpenseGet
  \/ ExportCsvGet

\* The running application: requests in any order, from the empty table.
Spec == Init /\ [][Next]_vars

\* ------------------------------------------- the report handlers, as functions
\* The table after the forms of fs have been posted to the empty table.
RECURSIVE TableOf(_)
TableOf(fs) ==
  IF fs = <<>> THEN <<>>
  ELSE AddExpense(TableOf(SubSeq(fs, 1, Len(fs) - 1)), fs[Len(fs)]).rows

\* The forms add_expense accepts.
AcceptedForms == {f \in AllForms : AddExpense(<<>>, f).resp.status = 302}

\* Every table of at most MaxRecords rows that posting accepted forms builds.
ReportInit ==
  /\ db \in {TableOf(fs) : fs \in UNION {[1..n -> AcceptedForms] : n \in 0..MaxRecords}}
  /\ deleted = {}
  /\ req = NoReq
  /\ resp = [status |-> 0]

\* One report request on the table drawn.
ReportNext ==
  /\ req = NoReq
  /\ \/ IndexGet
     \/ DashboardGet
     \/ ViewExpensesGet
     \/ ExportCsvGet

\* The read-only handlers as functions of the table: each applied once to
\* every table of ReportInit.
ReportSpec == ReportInit /\ [][ReportNext]_vars

\* ----------------------------------------------------------------- claims
IsDashboard == req.op = "dashboard"

IsExport == req.op = "export_csv"

IsAddPost == req.op = "add_expense" /\ req.method = "POST"

IsDelete == req.op = "delete_expense"

\* A dict read as a mapping: its set of (key, value) pairs.
Items(d) == {<<d[i].k, d[i].v>> : i \in 1..Len(d)}

NoDuplicateKeys(d) == \A i, j \in 1..Len(d) : d[i].k = d[j].k => i = j

\* A month key of the form YYYY-MM: four digits, "-", two digits of a month.
IsMonthKey(k) ==
  /\ Len(k) = 7
  /\ k[5] = "-"
  /\ \A i \in {1, 2, 3, 4, 6, 7} : k[i] \in DigitChars
  /\ DecimalValue(SubSeq(k, 6, 7)) \in 1..12

KeyYear(k) == DecimalValue(SubSeq(k, 1, 4))

KeyMonth(k) == DecimalValue(SubSeq(k, 6, 7))

\* The amounts, in table order, of the rows an operator selects.
AmountsWhere(expenses, Test(_)) == Amounts(SelectSeq(expenses, Test))

\* C1: the dashboard conserves the total: the per-category totals and the
\* per-month totals both add up to the sum of amount over all rows.
C1_ConservationOfTotal ==
  IsDashboard =>
    /\ FSum(DictValues(resp.categories)) = FSum(DictValues(resp.monthly_data))
    /\ FSum(DictValues(resp.categories)) = FSum(Amounts(resp.expenses))

\* C2: an id that delete_expense has removed is never the id of a stored row
\* again, whatever is added or deleted afterwards.
C2_DeletedIdNeverReturns == \A id \in deleted : id \notin Ids(db)

\* C3: delete_expense of an id no row has answers 404 and leaves the table
\* exactly as it was.
C3_DeleteMissingLeavesStore ==
  [][(IsDelete' /\ req'.id \notin Ids(db)) => (resp'.status = 404 /\ db' = db)]_vars

C3_Witness == IsDelete /\ resp.status = 404 /\ Len(db) >= 2

\* C4: a POST to add_expense whose amount float() rejects or whose date
\* strptime() rejects fails before an Expense is constructed and leaves the
\* table as it was; the table gains a row only on a POST whose amount and
\* date both parse.
C4_RejectedBeforeConstruction ==
  [][/\ (IsAddPost' /\ (~ParseFloat(req'.form.amount).ok \/ ~Strptime(req'.form.date).ok))
          => (resp'.status = 500 /\ ~resp'.constructed /\ db' = db)
     /\ Len(db') > Len(db)
          => (IsAddPost' /\ ParseFloat(req'.form.amount).ok /\ Strptime(req'.form.date).ok
              /\ resp'.constructed)]_vars

C4_Witness == IsAddPost /\ resp.status = 500 /\ Len(db) >= 1

\* C5: the data rows of the export are newest first: each row's date is not
\* before the date of the row after it.
C5_ExportNewestFirst ==
  IsExport =>
    \A i \in 2..(Len(resp.rows) - 1) :
      DateOrd(Strptime(resp.rows[i][1])) >= DateOrd(Strptime(resp.rows[i + 1][1]))

\* C6: the export of a table of N rows is the header row and then exactly N
\* data rows, the i-th describing the i-th row; of the empty table, the
\* header row alone.
C6_ExportHeaderAndRows ==
  IsExport =>
    /\ Len(resp.rows) = 1 + Len(db)
    /\ resp.rows[1] = <<"Date", "Category", "Description", "Amount (₹)">>
    /\ \A i \in 1..Len(db) :
         LET row == resp.rows[i + 1]
             dt  == Strptime(row[1])
         IN  /\ Len(row) = 4
             /\ dt.ok
             /\ <<dt.year, dt.month, dt.day>>
                  = <<db[i].date.year, db[i].date.month, db[i].date.day>>
             /\ row[2] = db[i].category
             /\ row[3] = db[i].description
             /\ row[4] = FloatStr(db[i].amount)

C6_Witness == IsExport /\ Len(db) >= 2 /\ Len(resp.rows) = 1 + Len(db)

\* C7: the per-category map has exactly the distinct categories of the rows
\* as keys, each mapped to the sum of amount of the rows of that category;
\* the per-month map has exactly the YYYY-MM keys of the rows' dates as keys,
\* each mapped to the sum of amount of the rows dated in that month.
C7_GroupTotals ==
  IsDashboard =>
    LET es == resp.expenses
        cs == resp.categories
        ms == resp.monthly_data
    IN  /\ es = db
        /\ NoDuplicateKeys(cs)
        /\ {cs[i].k : i \in 1..Len(cs)} = {es[i].category : i \in 1..Len(es)}
        /\ \A i \in 1..Len(cs) :
             LET InCategory(e) == e.category = cs[i].k
             IN  cs[i].v = FSum(AmountsWhere(es, InCategory))
        /\ NoDuplicateKeys(ms)
        /\ \A i \in 1..Len(ms) : IsMonthKey(ms[i].k)
        /\ {<<KeyYear(ms[i].k), KeyMonth(ms[i].k)>> : i \in 1..Len(ms)}
             = {<<es[i].date.year, es[i].date.month>> : i \in 1..Len(es)}
        /\ \A i \in 1..Len(ms) :
             LET InMonth(e) == /\ e.date.year = KeyYear(ms[i].k)
                               /\ e.date.month = KeyMonth(ms[i].k)
             IN  ms[i].v = FSum(AmountsWhere(es, InMonth))

C7_Witness ==
  /\ IsDashboard
  /\ Len(resp.expenses) = 3
  /\ Len(resp.categories) = 2
  /\ Len(resp.monthly_data) = 2

\* C8: sorted_months holds each key of the per-month map exactly once, is
\* non-decreasing in the lexicographic order, is in chronological order when
\* the keys are zero-padded YYYY-MM keys, and monthly_values[i] is the total
\* of sorted_months[i].
C8_SortedMonths ==
  IsDashboard =>
    LET sm == resp.sorted_months
        ms == resp.monthly_data
    IN  /\ Len(sm) = Len(ms)
        /\ {sm[i] : i \in 1..Len(sm)} = {ms[i].k : i \in 1..Len(ms)}
        /\ \A i, j \in 1..Len(sm) : sm[i] = sm[j] => i = j
        /\ \A i, j \in 1..Len(sm) : i < j => ~StrLess(sm[j], sm[i])
        /\ (\A i \in 1..Len(sm) : IsMonthKey(sm[i]))
             => \A i, j \in 1..Len(sm) :
                  i < j => KeyYear(sm[i]) * 12 + KeyMonth(sm[i])
                             < KeyYear(sm[j]) * 12 + KeyMonth(sm[j])
        /\ Len(resp.monthly_values) = Len(sm)
        /\ \A i \in 1..Len(sm) : <<sm[i], resp.monthly_values[i]>> \in Items(ms)

\* The first row is of a later month than the second, so the keys are not
\* inserted in order.
C8_Witness ==
  /\ IsDashboard
  /\ Len(resp.sorted_months) = 2
  /\ DictKeys(resp.monthly_data) # resp.sorted_months

\* C9: the per-month map does not depend on the order of the rows: every
\* permutation of the rows gives the same keys with the same totals.
C9_MonthlyOrderIndependent ==
  IsDashboard =>
    \A p \in Permutations(1..Len(resp.expenses)) :
      LET permuted == [i \in 1..Len(resp.expenses) |-> resp.expenses[p[i]]]
      IN  Items(Aggregate(permuted, 1, <<>>, <<>>).monthly_data)
            = Items(resp.monthly_data)

\* C10: on the empty table both maps are empty and both chart helpers give
\* None; a helper gives None only for an empty input and gives a chart for
\* every non-empty one.
C10_ChartsAbsentIffEmpty ==
  IsDashboard =>
    /\ db = <<>> =>
         /\ resp.categories = <<>>
         /\ resp.monthly_data = <<>>
         /\ resp.category_chart = NoChart
         /\ resp.monthly_chart = NoChart
    /\ resp.category_chart = NoChart => resp.categories = <<>>
    /\ resp.categories # <<>> => resp.category_chart.kind = "pie"
    /\ resp.monthly_chart = NoChart => resp.sorted_months = <<>>
    /\ resp.sorted_months # <<>> => resp.monthly_chart.kind = "line"

====
